---------------------------- MODULE Spec2Model ----------------------------
(***************************************************************************)
(* A model of src/hash_table.c: a hash table of TABLE_SIZE doubly-linked   *)
(* lists, each headed by a sentinel node, with the djb2-style hash.  Each  *)
(* program of the repository has its own variables and its own             *)
(* specification; the variables of the others stay at their idle values.   *)
(*                                                                         *)
(* Memory is modelled explicitly.  Node blocks and string blocks live in   *)
(* two bounded arenas; a pointer is an arena address, NULL is 0 and the    *)
(* static string literal SENTINEL has the address SentinelPtr.  malloc is  *)
(* first fit over the arena and fails when its caller's input says so or   *)
(* when the arena is exhausted.  Every access to a block that is not live  *)
(* and every free of a block that is not live is recorded in `fault'.      *)
(***************************************************************************)
EXTENDS Integers, Sequences, FiniteSets, TLC

\* ------------------------------------------------------------ constants

\* #define TABLE_SIZE 5
TABLE_SIZE == 5

\* The number of non-sentinel nodes (and of owned strings) the arena holds.
MaxEntries == 3

NULL == 0

\* The address held in the global `char *SENTINEL': a static literal, no
\* arena block.
SentinelPtr == -1

\* The bytes of "SENTINEL".
SENTINEL == <<83, 69, 78, 84, 73, 78, 69, 76>>

\* The tokens scanf("%79s", name) delivers in this model: "alice", "bob",
\* "carol", "dup" (bob and dup share a bucket) and the reserved "SENTINEL".
alice == <<97, 108, 105, 99, 101>>
bob == <<98, 111, 98>>
carol == <<99, 97, 114, 111, 108>>
dup == <<100, 117, 112>>
Names == {alice, bob, carol, dup, SENTINEL}

NodeAddr == 1..(TABLE_SIZE + MaxEntries)
StrAddr == 1..MaxEntries

\* The contents of a block that is not live are indeterminate; the model
\* keeps one fixed filler there and flags every access to such a block.
NoString == <<>>
JunkNode == [value |-> NULL, prev |-> NULL, next |-> NULL]

\* Loop fuel: more steps than a list has nodes means the walk never ends.
Fuel == TABLE_SIZE + MaxEntries + 1
Diverges == -2

\* queue.c:17 and stack.c:17: const int SENTINEL = INT_MAX, with a 32-bit int.
INT_MAX == 2147483647

\* The most values a run of the queue or of the stack adds.
MaxAdds == 4

\* The ints read by scanf("%i") and accepted by value >= 0 (queue.c:156,
\* stack.c:153).
IntValues == {1, 2, INT_MAX}

\* The heap of int nodes: the head and one node for every value added.
IntAddr == 1..(MaxAdds + 1)

JunkInt == [value |-> 0, prev |-> NULL, next |-> NULL]

IntFuel == MaxAdds + 2

\* trie.c:15.
TRIE_PATHS == 26

\* The nodes the trie's heap has room for, the root included.
MaxTries == 4

TrieAddr == 1..MaxTries

\* The words read by scanf("%79s"): a, A, ab, aB, b, z, Z, a1, 1, and two
\* with a byte above 127.
TrieWords == {<<97>>, <<65>>, <<97, 98>>, <<97, 66>>, <<98>>, <<122>>, <<90>>,
              <<97, 49>>, <<49>>, <<200>>, <<97, 200>>}

MaxWordLen == 2

NoPaths == [n \in 0..(TRIE_PATHS - 1) |-> NULL]

JunkTrie == [is_data |-> FALSE, paths |-> NoPaths]

\* A call that did not return: the process was stopped.
Trap == -3

VARIABLES
    pc,      \* position of main: "create", "run", "done", "failed", "crashed"
    i,       \* the construction loop's index
    table,   \* struct node *table[TABLE_SIZE], the entries assigned so far
    node,    \* node arena: address -> struct node
    nstat,   \* node arena: address -> "free" | "live"
    str,     \* string arena: address -> bytes
    sstat,   \* string arena: address -> "free" | "live"
    fault,   \* "none", or the first invalid memory operation
    stored,  \* history: per name, successful inserts minus successful removes
    everRemoved, \* history: remove_entry has released a node
    inserted, \* history: per bucket, the nodes inserted and not yet removed,
             \* oldest first, each with the value it was inserted with
    last     \* history: the operation that produced this state

\* hash() called on its own, on any key and on either kind of build.
VARIABLES
    hkey,    \* the bytes of the key, each 1..255, without the final 0
    hsigned, \* the build: TRUE when plain char is a signed type
    hcalled, \* hash(hkey) has returned
    hret     \* the value it returned

\* queue.c and stack.c, each run on its own: one heap of int nodes.
VARIABLES
    lpc,     \* position of main: "off", "create", "run", "done", "crashed"
    lhead,   \* main's queue_head or stack_head
    lnode,   \* node arena: address -> struct node
    lstat,   \* node arena: address -> "free" | "live"
    lfault,  \* "none", or the first invalid memory operation
    added,   \* history: the values enqueued or pushed with success, in order
    taken,   \* history: the values dequeue or pop returned, in order
    held,    \* history: the values added and not yet taken, oldest first
    llast,   \* history: the operation that produced this state
    prog     \* which program runs on the int nodes: "queue", "stack", "none"

\* trie.c, run on its own.
VARIABLES
    tpc,     \* position of main: "off", "create", "run", "done", "crashed"
    troot,   \* main's trie_root
    tnode,   \* trie arena: address -> struct trie
    tstat,   \* trie arena: address -> "free" | "live"
    tctype,  \* the build: what <ctype.h> does with a negative char
    words,   \* history: the case-folded words inserted and not removed since
    tlast    \* history: the operation that produced this state

tablevars == <<pc, i, table, node, nstat, str, sstat, fault, stored,
               everRemoved, inserted, last>>

hvars == <<hkey, hsigned, hcalled, hret>>

intvars == <<lpc, lhead, lnode, lstat, lfault, added, taken, held, llast>>

trievars == <<tpc, troot, tnode, tstat, tctype, words, tlast>>

vars == <<tablevars, hvars, intvars, prog, trievars>>

\* What the steps of the hash table program leave alone.
notTable == <<hvars, intvars, prog, trievars>>

\* What the steps of the other programs leave alone.
notHash == <<tablevars, intvars, prog, trievars>>

notInt == <<tablevars, hvars, prog, trievars>>

\* The trie reads the build's kind of char, and nothing else of the others.
notTrie == <<tablevars, hkey, hcalled, hret, intvars, prog>>

heapvars == <<table, node, nstat, str, sstat>>

\* The heap as one value, as the C functions below take and return it.
Mem == [node |-> node, nstat |-> nstat, str |-> str, sstat |-> sstat,
        fault |-> fault]

\* ------------------------------------------------------------ hash

\* unsigned long is 64 bits wide: four 16-bit limbs, least significant first.
Limb == 65536

HashInit == <<5381, 0, 0, 0>>

\* hash = ((hash << 5) + hash) + c, modulo 2^64 (the carry out of the top
\* limb is dropped).
Mul33Add(acc, c) ==
    LET t1 == acc[1] * 33 + c
        t2 == acc[2] * 33 + (t1 \div Limb)
        t3 == acc[3] * 33 + (t2 \div Limb)
        t4 == acc[4] * 33 + (t3 \div Limb)
    IN  <<t1 % Limb, t2 % Limb, t3 % Limb, t4 % Limb>>

RECURSIVE HashFold(_, _)
HashFold(acc, s) ==
    IF s = <<>> THEN acc ELSE HashFold(Mul33Add(acc, Head(s)), Tail(s))

\* hash % TABLE_SIZE of a 64-bit value held in limbs.
ModTable(acc) ==
    LET r4 == acc[4] % TABLE_SIZE
        r3 == (r4 * Limb + acc[3]) % TABLE_SIZE
        r2 == (r3 * Limb + acc[2]) % TABLE_SIZE
    IN  (r2 * Limb + acc[1]) % TABLE_SIZE

\* hash(str), given the values c that line 193 reads in turn.
hash(s) == ModTable(HashFold(HashInit, s))

\* c = *str++ at line 193: a byte read through plain char and converted to
\* int.  Whether plain char is signed is the implementation's choice; where
\* it is, the bytes 128..255 are the values -128..-1.
CharToInt(b, signedChar) == IF signedChar /\ b >= 128 THEN b - 256 ELSE b

\* hash(str) on the bytes of str, as the build computes it.
hash_bytes(bytes, signedChar) ==
    hash([n \in DOMAIN bytes |-> CharToInt(bytes[n], signedChar)])

\* ------------------------------------------------------------ memory

Min(S) == CHOOSE x \in S : \A y \in S : x <= y

FreeNodes(H) == {a \in NodeAddr : H.nstat[a] = "free"}
FreeStrs(H) == {a \in StrAddr : H.sstat[a] = "free"}

\* malloc(sizeof(struct node)): the address, or NULL.
MallocNode(H, ok) ==
    IF ok /\ FreeNodes(H) # {} THEN Min(FreeNodes(H)) ELSE NULL

\* malloc(strlen(value) + 1): the address, or NULL.
MallocStr(H, ok) ==
    IF ok /\ FreeStrs(H) # {} THEN Min(FreeStrs(H)) ELSE NULL

\* A dereference of each node pointer in S.
Touch(H, S) ==
    IF \A p \in S : p \in NodeAddr /\ H.nstat[p] = "live"
    THEN H
    ELSE [H EXCEPT !.fault = IF @ = "none" THEN "invalid_access" ELSE @]

\* free(p) of a node block.
FreeNode(H, p) ==
    IF p = NULL THEN H
    ELSE IF p \in NodeAddr /\ H.nstat[p] = "live"
    THEN [H EXCEPT !.nstat[p] = "free", !.node[p] = JunkNode]
    ELSE [H EXCEPT !.fault = IF @ = "none" THEN "invalid_free" ELSE @]

\* free(s) of a string block.
FreeStr(H, s) ==
    IF s = NULL THEN H
    ELSE IF s \in StrAddr /\ H.sstat[s] = "live"
    THEN [H EXCEPT !.sstat[s] = "free", !.str[s] = NoString]
    ELSE [H EXCEPT !.fault = IF @ = "none" THEN "invalid_free" ELSE @]

\* The bytes a `char *value' points to.
StrVal(H, v) ==
    IF v = SentinelPtr THEN SENTINEL
    ELSE IF v \in StrAddr THEN H.str[v]
    ELSE NoString

\* ------------------------------------------------------------ the list

\* create_list(): a fresh sentinel node, or NULL when malloc fails.
create_list(H, ok) ==
    LET new_list == MallocNode(H, ok)
    IN  IF new_list = NULL
        THEN [H |-> H, ret |-> NULL]
        ELSE [H |-> [H EXCEPT !.nstat[new_list] = "live",
                              !.node[new_list] = [value |-> SentinelPtr,
                                                  prev |-> NULL,
                                                  next |-> NULL]],
              ret |-> new_list]

\* Mutant: lines 84-87, which point the displaced first node back to the new
\* node, are missing.
LinkAfterHead_NoBackLink(H, list_head, new_entry, new_string) ==
    LET H1 == Touch(H, {list_head, new_entry})
        H2 == [H1 EXCEPT !.node[new_entry] =
                            [value |-> new_string,
                             prev |-> list_head,
                             next |-> H1.node[list_head].next]]
    IN  [H2 EXCEPT !.node[list_head].next = new_entry]

\* Mutant: line 81 initialises the node as {new_string, NULL, list_head->next}.
LinkAfterHead_NullPrev(H, list_head, new_entry, new_string) ==
    LET H1 == Touch(H, {list_head, new_entry})
        H2 == [H1 EXCEPT !.node[new_entry] =
                            [value |-> new_string,
                             prev |-> NULL,
                             next |-> H1.node[list_head].next]]
        nxt == H2.node[new_entry].next
        H3 == IF nxt # NULL
              THEN [Touch(H2, {nxt}) EXCEPT !.node[nxt].prev = new_entry]
              ELSE H2
    IN  [H3 EXCEPT !.node[list_head].next = new_entry]

\* Mutant: list_head->next = new_entry is done first, so the node's next is
\* read from the head after it already points to the node.
LinkAfterHead_SelfLoop(H, list_head, new_entry, new_string) ==
    LET H1 == Touch(H, {list_head, new_entry})
        H2 == [H1 EXCEPT !.node[list_head].next = new_entry]
        H3 == [H2 EXCEPT !.node[new_entry] =
                            [value |-> new_string,
                             prev |-> list_head,
                             next |-> H2.node[list_head].next]]
        nxt == H3.node[new_entry].next
    IN  IF nxt # NULL
        THEN [Touch(H3, {nxt}) EXCEPT !.node[nxt].prev = new_entry]
        ELSE H3

\* Mutant: line 89, list_head->next = new_entry, is missing.
LinkAfterHead_NoHeadLink(H, list_head, new_entry, new_string) ==
    LET H1 == Touch(H, {list_head, new_entry})
        H2 == [H1 EXCEPT !.node[new_entry] =
                            [value |-> new_string,
                             prev |-> list_head,
                             next |-> H1.node[list_head].next]]
        nxt == H2.node[new_entry].next
    IN  IF nxt # NULL
        THEN [Touch(H2, {nxt}) EXCEPT !.node[nxt].prev = new_entry]
        ELSE H2

\* Lines 81-89 of insert_entry: fill the new node and link it right after
\* list_head.
LinkAfterHead(H, list_head, new_entry, new_string) ==
    LET H1 == Touch(H, {list_head, new_entry})
        H2 == [H1 EXCEPT !.node[new_entry] =
                            [value |-> new_string,
                             prev |-> list_head,
                             next |-> H1.node[list_head].next]]
        nxt == H2.node[new_entry].next
        H3 == IF nxt # NULL
              THEN [Touch(H2, {nxt}) EXCEPT !.node[nxt].prev = new_entry]
              ELSE H2
    IN  [H3 EXCEPT !.node[list_head].next = new_entry]

\* Mutant: the guard is missing.
InsertRejects_Never(value) == FALSE

\* The guard of insert_entry, lines 66-70: strcmp(value, SENTINEL) == 0.
InsertRejects(value) == value = SENTINEL

\* Mutant: the node is allocated before the guard is evaluated, and is not
\* released when the guard refuses the value.
insert_entry_LateReject(H, list_head, value, okNode, okStr) ==
    LET new_entry == MallocNode(H, okNode)
    IN  IF new_entry = NULL
        THEN [H |-> H, ret |-> FALSE, crash |-> FALSE, allocfail |-> TRUE]
        ELSE
        LET H1 == [H EXCEPT !.nstat[new_entry] = "live"]
            new_string == MallocStr(H1, okStr)
        IN  IF InsertRejects(value)
            THEN [H |-> H1, ret |-> FALSE, crash |-> FALSE,
                  allocfail |-> FALSE]
            ELSE IF new_string = NULL
            THEN [H |-> [H1 EXCEPT !.fault = "null_deref"],
                  ret |-> FALSE, crash |-> TRUE, allocfail |-> TRUE]
            ELSE
            LET H2 == [H1 EXCEPT !.sstat[new_string] = "live",
                                 !.str[new_string] = value]
            IN  [H |-> LinkAfterHead(H2, list_head, new_entry, new_string),
                 ret |-> TRUE, crash |-> FALSE, allocfail |-> FALSE]

\* insert_entry(list_head, value).  ret is the value returned; crash says
\* that the call never returned: strcpy through the NULL that an unchecked
\* malloc gave writes to address 0, which traps and ends the process.
\* allocfail says that one of the two malloc calls returned NULL.
insert_entry(H, list_head, value, okNode, okStr) ==
    IF InsertRejects(value)
    THEN [H |-> H, ret |-> FALSE, crash |-> FALSE, allocfail |-> FALSE]
    ELSE
    LET new_entry == MallocNode(H, okNode)
    IN  IF new_entry = NULL
        THEN [H |-> H, ret |-> FALSE, crash |-> FALSE, allocfail |-> TRUE]
        ELSE
        LET H1 == [H EXCEPT !.nstat[new_entry] = "live"]
            new_string == MallocStr(H1, okStr)
        IN  IF new_string = NULL
            THEN [H |-> [H1 EXCEPT !.fault = "null_deref"],
                  ret |-> FALSE, crash |-> TRUE, allocfail |-> TRUE]
            ELSE
            LET H2 == [H1 EXCEPT !.sstat[new_string] = "live",
                                 !.str[new_string] = value]
            IN  [H |-> LinkAfterHead(H2, list_head, new_entry, new_string),
                 ret |-> TRUE, crash |-> FALSE, allocfail |-> FALSE]

\* Mutant: the loop does not return at the first match and keeps the last.
RECURSIVE FindLoop_LastMatch(_, _, _, _)
FindLoop_LastMatch(H, p, value, fuel) ==
    IF p = NULL THEN NULL
    ELSE IF fuel = 0 THEN Diverges
    ELSE LET later == FindLoop_LastMatch(H, H.node[p].next, value, fuel - 1)
         IN  IF later # NULL THEN later
             ELSE IF StrVal(H, H.node[p].value) = value THEN p
             ELSE NULL

\* Mutant: line 108 reads if (strcmp(list_head->value, value)), which is
\* true when the strings differ.
RECURSIVE FindLoop_Inverted(_, _, _, _)
FindLoop_Inverted(H, p, value, fuel) ==
    IF p = NULL THEN NULL
    ELSE IF fuel = 0 THEN Diverges
    ELSE IF StrVal(H, H.node[p].value) # value THEN p
    ELSE FindLoop_Inverted(H, H.node[p].next, value, fuel - 1)

\* The while loop of find_entry, lines 105-114, starting at node p.
RECURSIVE FindLoop(_, _, _, _)
FindLoop(H, p, value, fuel) ==
    IF p = NULL THEN NULL
    ELSE IF fuel = 0 THEN Diverges
    ELSE IF StrVal(H, H.node[p].value) = value THEN p
    ELSE FindLoop(H, H.node[p].next, value, fuel - 1)

\* find_entry(list_head, value): the first node holding value, or NULL.
find_entry(H, list_head, value) ==
    IF value = SENTINEL THEN NULL
    ELSE FindLoop(H, list_head, value, Fuel)

\* Mutant: lines 131-132, which repair the successor's prev, are missing.
Unlink_NoBackLink(H, entry) ==
    LET prv == H.node[entry].prev
        nxt == H.node[entry].next
    IN  IF prv # NULL
        THEN [Touch(H, {entry, prv}) EXCEPT !.node[prv].next = nxt]
        ELSE [H EXCEPT !.fault = IF @ = "none" THEN "null_deref" ELSE @]

\* Mutant: line 127 reads entry->prev->next = NULL; the nodes after entry
\* are cut off with it.
Unlink_DropTail(H, entry) ==
    LET prv == H.node[entry].prev
        nxt == H.node[entry].next
        H1 == [Touch(H, {entry, prv}) EXCEPT !.node[prv].next = NULL]
    IN  IF nxt # NULL
        THEN [Touch(H1, {nxt}) EXCEPT !.node[nxt].prev = prv]
        ELSE H1

\* Lines 127-132 of remove_entry: splice entry out of its list.
Unlink(H, entry) ==
    LET prv == H.node[entry].prev
        nxt == H.node[entry].next
        H1 == IF prv # NULL
              THEN [Touch(H, {entry, prv}) EXCEPT !.node[prv].next = nxt]
              ELSE [H EXCEPT !.fault = IF @ = "none" THEN "null_deref" ELSE @]
    IN  IF nxt # NULL
        THEN [Touch(H1, {nxt}) EXCEPT !.node[nxt].prev = prv]
        ELSE H1

\* Mutant: the guard of lines 121-125 is missing.
RemoveRejects_Never(H, entry) == FALSE

\* The guard of remove_entry, lines 121-125: strcmp(entry->value, SENTINEL) == 0.
RemoveRejects(H, entry) == StrVal(H, H.node[entry].value) = SENTINEL

\* Mutant: line 134, free(entry->value), is missing.
remove_entry_NoStrFree(H, entry) ==
    IF RemoveRejects(H, entry)
    THEN [H |-> H, ret |-> FALSE]
    ELSE
    LET H1 == Unlink(H, entry)
        H3 == [H1 EXCEPT !.node[entry].value = NULL]
    IN  [H |-> FreeNode(H3, entry), ret |-> TRUE]

\* remove_entry(entry).
remove_entry(H, entry) ==
    IF RemoveRejects(H, entry)
    THEN [H |-> H, ret |-> FALSE]
    ELSE
    LET H1 == Unlink(H, entry)
        H2 == FreeStr(H1, H1.node[entry].value)
        H3 == [H2 EXCEPT !.node[entry].value = NULL]
    IN  [H |-> FreeNode(H3, entry), ret |-> TRUE]

\* Mutant: line 159, which keeps the sentinel's value out, is missing.
RECURSIVE PrintLoop_NoSentinelTest(_, _, _)
PrintLoop_NoSentinelTest(H, p, fuel) ==
    IF p = NULL \/ fuel = 0 THEN <<>>
    ELSE <<StrVal(H, H.node[p].value)>>
         \o PrintLoop_NoSentinelTest(H, H.node[p].next, fuel - 1)

\* Line 150 of print_list: the test that makes it write "Empty list.".
PrintsEmpty(H, list_head) == H.node[list_head].next = NULL

\* print_list(list_head): the values written, in order; <<>> stands for the
\* line "Empty list.".
RECURSIVE PrintLoop(_, _, _)
PrintLoop(H, p, fuel) ==
    IF p = NULL \/ fuel = 0 THEN <<>>
    ELSE LET v == StrVal(H, H.node[p].value)
         IN  (IF v # SENTINEL THEN <<v>> ELSE <<>>)
             \o PrintLoop(H, H.node[p].next, fuel - 1)

print_list(H, list_head) ==
    IF H.node[list_head].next = NULL THEN <<>>
    ELSE PrintLoop(H, list_head, Fuel)

\* delete_list(list_head): frees the owned string, then the rest of the
\* list, then the node.
RECURSIVE delete_list(_, _, _)
delete_list(H, list_head, fuel) ==
    IF list_head = NULL THEN H
    ELSE IF fuel = 0
    THEN [H EXCEPT !.fault = IF @ = "none" THEN "diverges" ELSE @]
    ELSE
    LET H0 == Touch(H, {list_head})
        H1 == IF H0.node[list_head].value # SentinelPtr
              THEN FreeStr(H0, H0.node[list_head].value)
              ELSE H0
        H2 == delete_list(H1, H1.node[list_head].next, fuel - 1)
    IN  FreeNode(H2, list_head)

\* ------------------------------------------------------------ main

\* Mutant: the index is taken from the length of the name.
BucketOf_Len(name) == Len(name) % TABLE_SIZE

\* int index = hash(name), lines 216 and 230.
BucketOf(name) == hash(name)

NoOp == [op |-> "none", key |-> <<>>, ret |-> "none", allocfail |-> FALSE]

\* hash() is not under test.
HashIdle ==
    /\ hkey = <<>>
    /\ hsigned = FALSE
    /\ hcalled = FALSE
    /\ hret = 0

TableInit ==
    /\ pc = "create"
    /\ i = 0
    /\ table = <<>>
    /\ node = [a \in NodeAddr |-> JunkNode]
    /\ nstat = [a \in NodeAddr |-> "free"]
    /\ str = [a \in StrAddr |-> NoString]
    /\ sstat = [a \in StrAddr |-> "free"]
    /\ fault = "none"
    /\ stored = [k \in Names |-> 0]
    /\ everRemoved = FALSE
    /\ inserted = [b \in 0..(TABLE_SIZE - 1) |-> <<>>]
    /\ last = NoOp

\* The queue and the stack are not running.
IntIdle ==
    /\ prog = "none"
    /\ lpc = "off"
    /\ lhead = NULL
    /\ lnode = [a \in IntAddr |-> JunkInt]
    /\ lstat = [a \in IntAddr |-> "free"]
    /\ lfault = "none"
    /\ added = <<>>
    /\ taken = <<>>
    /\ held = <<>>
    /\ llast = [op |-> "none", arg |-> 0, ret |-> 0, front |-> 0]

\* The trie is not running.
TrieIdle ==
    /\ tpc = "off"
    /\ troot = NULL
    /\ tnode = [a \in TrieAddr |-> JunkTrie]
    /\ tstat = [a \in TrieAddr |-> "free"]
    /\ tctype = "zero"
    /\ words = {}
    /\ tlast = [op |-> "none", word |-> <<>>, ret |-> 0]

Init == TableInit /\ HashIdle /\ IntIdle /\ TrieIdle

SetMem(H) ==
    /\ node' = H.node
    /\ nstat' = H.nstat
    /\ str' = H.str
    /\ sstat' = H.sstat
    /\ fault' = H.fault

\* One pass of the construction loop, lines 202-210: table[i] = create_list(),
\* and return 1 when it is NULL.
CreateBucket ==
    /\ pc = "create"
    /\ \E ok \in BOOLEAN :
        LET r == create_list(Mem, ok)
        IN  /\ SetMem(r.H)
            /\ table' = (i :> r.ret) @@ table
            /\ IF r.ret = NULL
               THEN /\ pc' = "failed"
                    /\ i' = i
               ELSE /\ pc' = IF i + 1 < TABLE_SIZE THEN "create" ELSE "run"
                    /\ i' = i + 1
            /\ last' = [op |-> "create", key |-> <<>>,
                        ret |-> IF r.ret = NULL THEN "false" ELSE "true",
                        allocfail |-> r.ret = NULL]
    /\ UNCHANGED <<stored, everRemoved, inserted, notTable>>

\* One pass of the insert loop, lines 214-219.  okNode and okStr are the
\* outcomes of the two malloc calls; the second is made only after the first
\* has succeeded.
Insert ==
    /\ pc = "run"
    /\ \E name \in Names, okNode \in BOOLEAN :
       \E okStr \in IF okNode THEN BOOLEAN ELSE {TRUE} :
        LET index == BucketOf(name)
            r == insert_entry(Mem, table[index], name, okNode, okStr)
        IN  /\ SetMem(r.H)
            /\ pc' = IF r.crash THEN "crashed" ELSE "run"
            /\ stored' = IF r.ret THEN [stored EXCEPT ![name] = @ + 1]
                         ELSE stored
            /\ inserted' =
                   IF r.ret
                   THEN [inserted EXCEPT ![index] =
                            Append(@, [addr |-> MallocNode(Mem, okNode),
                                       val |-> name])]
                   ELSE inserted
            /\ last' = [op |-> "insert", key |-> name,
                        ret |-> IF r.crash THEN "crash"
                                ELSE IF r.ret THEN "true" ELSE "false",
                        allocfail |-> r.allocfail]
    /\ UNCHANGED <<i, table, everRemoved, notTable>>

\* One pass of the remove loop, lines 228-240.
Remove ==
    /\ pc = "run"
    /\ \E name \in Names :
        LET index == BucketOf(name)
            element == find_entry(Mem, table[index], name)
        IN  IF element # NULL
            THEN LET r == remove_entry(Mem, element)
                 IN  /\ SetMem(r.H)
                     /\ stored' = IF r.ret
                                  THEN [stored EXCEPT ![name] = @ - 1]
                                  ELSE stored
                     /\ everRemoved' = (everRemoved \/ r.ret)
                     /\ inserted' =
                            IF r.ret
                            THEN [inserted EXCEPT ![index] =
                                     SelectSeq(@, LAMBDA e : e.addr # element)]
                            ELSE inserted
                     /\ last' = [op |-> "remove", key |-> name,
                                 ret |-> IF r.ret THEN "true" ELSE "false",
                                 allocfail |-> FALSE]
            ELSE /\ UNCHANGED <<node, nstat, str, sstat, fault, stored,
                               everRemoved, inserted>>
                 /\ last' = [op |-> "remove", key |-> name,
                             ret |-> "notfound", allocfail |-> FALSE]
    /\ UNCHANGED <<pc, i, table, notTable>>

\* The teardown loop, lines 248-249: delete_list(table[i]) for every i.
RECURSIVE DeleteAll(_, _)
DeleteAll(H, j) ==
    IF j = TABLE_SIZE THEN H
    ELSE DeleteAll(delete_list(H, table[j], Fuel), j + 1)

Destroy ==
    /\ pc = "run"
    /\ SetMem(DeleteAll(Mem, 0))
    /\ pc' = "done"
    /\ last' = [op |-> "destroy", key |-> <<>>, ret |-> "none",
                allocfail |-> FALSE]
    /\ UNCHANGED <<i, table, stored, everRemoved, inserted, notTable>>

Next == CreateBucket \/ Insert \/ Remove \/ Destroy

Spec == Init /\ [][Next]_vars

\* ------------------------------------------- the list functions used directly
\* remove_entry is an external function of the list; main never passes it a
\* sentinel, because find_entry never returns one. A direct caller can:
\* remove_entry(table[b]), lines 119-125.
RemoveSentinel ==
    /\ pc = "run"
    /\ \E b \in 0..(TABLE_SIZE - 1) :
        LET r == remove_entry(Mem, table[b])
        IN  /\ SetMem(r.H)
            /\ last' = [op |-> "remove_head", key |-> SENTINEL,
                        ret |-> IF r.ret THEN "true" ELSE "false",
                        allocfail |-> FALSE]
    /\ UNCHANGED <<pc, i, table, stored, everRemoved, inserted, notTable>>

ListNext == Next \/ RemoveSentinel

SpecList == Init /\ [][ListNext]_vars

\* ------------------------------------------------------------ int nodes
\* The heap of queue.c and of stack.c as one value.
IntMem == [node |-> lnode, stat |-> lstat, fault |-> lfault]

SetIntMem(L) ==
    /\ lnode' = L.node
    /\ lstat' = L.stat
    /\ lfault' = L.fault

IntFault(L, what) == [L EXCEPT !.fault = IF @ = "none" THEN what ELSE @]

\* malloc(sizeof(struct node)): the lowest free address, or NULL when the
\* allocator fails (ok = FALSE) or the arena is used up.
IntMalloc(L, ok) ==
    LET free == {a \in IntAddr : L.stat[a] = "free"}
    IN  IF ok /\ free # {} THEN Min(free) ELSE NULL

\* *a = (struct node){value, prev, next} on fresh memory.
IntNew(L, a, value, prv, nxt) ==
    [L EXCEPT !.stat[a] = "live",
              !.node[a] = [value |-> value, prev |-> prv, next |-> nxt]]

\* An access to the nodes S: invalid when one of them is not allocated.
IntTouch(L, S) ==
    IF \E a \in S : a \notin IntAddr \/ L.stat[a] # "live"
    THEN IntFault(L, "use_after_free")
    ELSE L

\* free(a); free(NULL) does nothing.
IntFreeNode(L, a) ==
    IF a = NULL THEN L
    ELSE IF a \in IntAddr /\ L.stat[a] = "live"
    THEN [L EXCEPT !.stat[a] = "free", !.node[a] = JunkInt]
    ELSE IntFault(L, "invalid_free")

\* The values of the nodes after p along next.
RECURSIVE IntWalk(_, _, _)
IntWalk(L, p, fuel) ==
    IF p = NULL \/ p \notin IntAddr \/ fuel = 0 THEN <<>>
    ELSE <<L.node[p].value>> \o IntWalk(L, L.node[p].next, fuel - 1)

\* ------------------------------------------------------------ queue.c
\* create_queue(), lines 36-47.
create_queue(L, ok) ==
    LET new_queue == IntMalloc(L, ok)
    IN  IF new_queue = NULL
        THEN [L |-> L, ret |-> NULL]
        ELSE [L |-> IntNew(L, new_queue, INT_MAX, NULL, NULL),
              ret |-> new_queue]

\* Mutant: the new node is linked right after the head, as push does.
EnqueueLink_AtFront(L, queue_head, new_entry) ==
    LET first == L.node[queue_head].next
        L1 == [L EXCEPT !.node[new_entry].prev = queue_head,
                        !.node[new_entry].next = first,
                        !.node[queue_head].next = new_entry]
    IN  IF first = NULL
        THEN [L1 EXCEPT !.node[queue_head].prev = new_entry]
        ELSE [L1 EXCEPT !.node[first].prev = new_entry]

\* Mutant: line 71 tests queue_head->prev == NULL for the empty queue.
EnqueueLink_TestsPrev(L, queue_head, new_entry) ==
    IF L.node[queue_head].prev = NULL
    THEN [L EXCEPT !.node[queue_head].next = new_entry,
                   !.node[queue_head].prev = new_entry,
                   !.node[new_entry].prev = queue_head]
    ELSE LET tail == L.node[queue_head].prev
         IN  IF tail \notin IntAddr \/ L.stat[tail] # "live"
             THEN IntFault(L, "use_after_free")
             ELSE [L EXCEPT !.node[tail].next = new_entry,
                            !.node[new_entry].prev = tail,
                            !.node[queue_head].prev = new_entry]

\* Lines 71-88 of enqueue: link new_entry behind the tail.
EnqueueLink(L, queue_head, new_entry) ==
    IF L.node[queue_head].next = NULL
    THEN [L EXCEPT !.node[queue_head].next = new_entry,
                   !.node[queue_head].prev = new_entry,
                   !.node[new_entry].prev = queue_head]
    ELSE LET tail == L.node[queue_head].prev
         IN  IF tail \notin IntAddr \/ L.stat[tail] # "live"
             THEN IntFault(L, "use_after_free")
             ELSE [L EXCEPT !.node[tail].next = new_entry,
                            !.node[new_entry].prev = tail,
                            !.node[queue_head].prev = new_entry]

\* Mutant: the guard of lines 53-57 is missing.
enqueue_AcceptsSentinel(L, queue_head, value, ok) ==
    LET new_entry == IntMalloc(L, ok)
    IN  IF new_entry = NULL
        THEN [L |-> L, ret |-> FALSE, crash |-> FALSE]
        ELSE LET L1 == IntNew(L, new_entry, value, NULL, NULL)
             IN  IF queue_head = NULL
                 THEN [L |-> L1, ret |-> FALSE, crash |-> TRUE]
                 ELSE [L |-> EnqueueLink(L1, queue_head, new_entry),
                       ret |-> TRUE, crash |-> FALSE]

\* enqueue(queue_head, value), lines 51-91. crash: queue_head is NULL and
\* line 71 reads through it.
enqueue(L, queue_head, value, ok) ==
    IF value = INT_MAX
    THEN [L |-> L, ret |-> FALSE, crash |-> FALSE]
    ELSE LET new_entry == IntMalloc(L, ok)
         IN  IF new_entry = NULL
             THEN [L |-> L, ret |-> FALSE, crash |-> FALSE]
             ELSE LET L1 == IntNew(L, new_entry, value, NULL, NULL)
                  IN  IF queue_head = NULL
                      THEN [L |-> L1, ret |-> FALSE, crash |-> TRUE]
                      ELSE [L |-> EnqueueLink(L1, queue_head, new_entry),
                            ret |-> TRUE, crash |-> FALSE]

\* dequeue(queue_head), lines 95-112. crash: queue_head is NULL and line 97
\* reads through it.
dequeue(L, queue_head) ==
    IF queue_head = NULL
    THEN [L |-> L, ret |-> INT_MAX, crash |-> TRUE]
    ELSE LET dequeue_entry == L.node[queue_head].next
         IN  IF dequeue_entry = NULL
             THEN [L |-> L, ret |-> INT_MAX, crash |-> FALSE]
             ELSE LET L0 == IntTouch(L, {dequeue_entry})
                      value == L0.node[dequeue_entry].value
                      L1 == [L0 EXCEPT
                                !.node[queue_head].next =
                                    L0.node[dequeue_entry].next,
                                !.node[dequeue_entry].prev = queue_head]
                  IN  [L |-> IntFreeNode(L1, dequeue_entry),
                       ret |-> value, crash |-> FALSE]

\* delete_queue(queue_head), lines 139-146: the rest first, then the node.
RECURSIVE delete_queue(_, _, _)
delete_queue(L, queue_head, fuel) ==
    IF queue_head = NULL \/ fuel = 0 THEN L
    ELSE LET L0 == IntTouch(L, {queue_head})
             nxt == IF queue_head \in IntAddr
                    THEN L0.node[queue_head].next ELSE NULL
         IN  IntFreeNode(delete_queue(L0, nxt, fuel - 1), queue_head)

\* main of queue.c. Line 150: the result of create_queue is not tested.
QueueInit ==
    /\ TableInit
    /\ HashIdle
    /\ TrieIdle
    /\ prog = "queue"
    /\ lpc = "create"
    /\ lhead = NULL
    /\ lnode = [a \in IntAddr |-> JunkInt]
    /\ lstat = [a \in IntAddr |-> "free"]
    /\ lfault = "none"
    /\ added = <<>>
    /\ taken = <<>>
    /\ held = <<>>
    /\ llast = [op |-> "none", arg |-> 0, ret |-> 0, front |-> 0]

QueueCreate ==
    /\ lpc = "create"
    /\ \E ok \in BOOLEAN :
        LET r == create_queue(IntMem, ok)
        IN  /\ SetIntMem(r.L)
            /\ lhead' = r.ret
    /\ lpc' = "run"
    /\ llast' = [op |-> "create", arg |-> 0, ret |-> 0, front |-> 0]
    /\ UNCHANGED <<added, taken, held, notInt>>

\* One pass of the loop of lines 153-160.
Enqueue ==
    /\ lpc = "run"
    /\ Len(added) < MaxAdds
    /\ \E value \in IntValues, ok \in BOOLEAN :
        LET r == enqueue(IntMem, lhead, value, ok)
        IN  /\ SetIntMem(r.L)
            /\ lpc' = IF r.crash THEN "crashed" ELSE "run"
            /\ added' = IF r.ret THEN Append(added, value) ELSE added
            /\ held' = IF r.ret THEN Append(held, value) ELSE held
            /\ llast' = [op |-> "enqueue", arg |-> value,
                         ret |-> IF r.ret THEN 1 ELSE 0, front |-> 0]
    /\ UNCHANGED <<lhead, taken, notInt>>

\* One pass of the loop of lines 165-177.
Dequeue ==
    /\ lpc = "run"
    /\ LET r == dequeue(IntMem, lhead)
       IN  /\ SetIntMem(r.L)
           /\ lpc' = IF r.crash THEN "crashed" ELSE "run"
           /\ taken' = IF r.ret # INT_MAX THEN Append(taken, r.ret) ELSE taken
           /\ held' = IF held # <<>> THEN Tail(held) ELSE held
           /\ llast' = [op |-> "dequeue", arg |-> Len(held), ret |-> r.ret,
                        front |-> IF held # <<>> THEN Head(held) ELSE INT_MAX]
    /\ UNCHANGED <<lhead, added, notInt>>

\* Line 179.
QueueDestroy ==
    /\ lpc = "run"
    /\ SetIntMem(delete_queue(IntMem, lhead, IntFuel))
    /\ lpc' = "done"
    /\ llast' = [op |-> "destroy", arg |-> 0, ret |-> 0, front |-> 0]
    /\ UNCHANGED <<lhead, added, taken, held, notInt>>

QueueNext == QueueCreate \/ Enqueue \/ Dequeue \/ QueueDestroy

SpecQueue == QueueInit /\ [][QueueNext]_vars

\* The values in the queue, front first.
QueueValues == IntWalk(IntMem, lnode[lhead].next, IntFuel)

\* ------------------------------------------------------------ stack.c
\* create_stack(), lines 36-47.
create_stack(L, ok) ==
    LET new_stack == IntMalloc(L, ok)
    IN  IF new_stack = NULL
        THEN [L |-> L, ret |-> NULL]
        ELSE [L |-> IntNew(L, new_stack, INT_MAX, NULL, NULL),
              ret |-> new_stack]

\* push(stack_head, value), lines 54-80. crash: stack_head is NULL and line
\* 69 reads through it.
push(L, stack_head, value, ok) ==
    IF value = INT_MAX
    THEN [L |-> L, ret |-> FALSE, crash |-> FALSE]
    ELSE LET new_entry == IntMalloc(L, ok)
         IN  IF new_entry = NULL
             THEN [L |-> L, ret |-> FALSE, crash |-> FALSE]
             ELSE IF stack_head = NULL
             THEN [L |-> IntNew(L, new_entry, value, NULL, NULL),
                   ret |-> FALSE, crash |-> TRUE]
             ELSE LET L1 == IntNew(L, new_entry, value, stack_head,
                                   L.node[stack_head].next)
                      nxt == L1.node[new_entry].next
                      L2 == IF nxt # NULL
                            THEN [IntTouch(L1, {nxt}) EXCEPT
                                     !.node[nxt].prev = new_entry]
                            ELSE L1
                  IN  [L |-> [L2 EXCEPT !.node[stack_head].next = new_entry],
                       ret |-> TRUE, crash |-> FALSE]

\* Mutant: line 95, stack_head->next = pop_entry->next, is missing.
PopUnlink_KeepTop(L, stack_head, pop_entry) == L

\* Lines 95-100 of pop: take pop_entry out of the list.
PopUnlink(L, stack_head, pop_entry) ==
    LET nxt == L.node[pop_entry].next
        L1 == [L EXCEPT !.node[stack_head].next = nxt]
    IN  IF nxt # NULL
        THEN [IntTouch(L1, {nxt}) EXCEPT
                 !.node[nxt].prev = L1.node[pop_entry].prev]
        ELSE L1

\* pop(stack_head), lines 84-106. Lines 102-103 set pop_entry to NULL and
\* then free it: free(NULL), which releases nothing. crash: stack_head is
\* NULL and line 86 reads through it.
pop(L, stack_head) ==
    IF stack_head = NULL
    THEN [L |-> L, ret |-> INT_MAX, crash |-> TRUE]
    ELSE LET pop_entry == L.node[stack_head].next
         IN  IF pop_entry = NULL
             THEN [L |-> L, ret |-> INT_MAX, crash |-> FALSE]
             ELSE LET L0 == IntTouch(L, {pop_entry})
                      value == L0.node[pop_entry].value
                      L1 == PopUnlink(L0, stack_head, pop_entry)
                  IN  [L |-> IntFreeNode(L1, NULL),
                       ret |-> value, crash |-> FALSE]

\* delete_stack(stack_head), lines 136-143: the rest first, then the node.
RECURSIVE delete_stack(_, _, _)
delete_stack(L, stack_head, fuel) ==
    IF stack_head = NULL \/ fuel = 0 THEN L
    ELSE LET L0 == IntTouch(L, {stack_head})
             nxt == IF stack_head \in IntAddr
                    THEN L0.node[stack_head].next ELSE NULL
         IN  IntFreeNode(delete_stack(L0, nxt, fuel - 1), stack_head)

\* main of stack.c. Line 147: the result of create_stack is not tested.
StackInit ==
    /\ TableInit
    /\ HashIdle
    /\ TrieIdle
    /\ prog = "stack"
    /\ lpc = "create"
    /\ lhead = NULL
    /\ lnode = [a \in IntAddr |-> JunkInt]
    /\ lstat = [a \in IntAddr |-> "free"]
    /\ lfault = "none"
    /\ added = <<>>
    /\ taken = <<>>
    /\ held = <<>>
    /\ llast = [op |-> "none", arg |-> 0, ret |-> 0, front |-> 0]

StackCreate ==
    /\ lpc = "create"
    /\ \E ok \in BOOLEAN :
        LET r == create_stack(IntMem, ok)
        IN  /\ SetIntMem(r.L)
            /\ lhead' = r.ret
    /\ lpc' = "run"
    /\ llast' = [op |-> "create", arg |-> 0, ret |-> 0, front |-> 0]
    /\ UNCHANGED <<added, taken, held, notInt>>

\* One pass of the loop of lines 150-157.
Push ==
    /\ lpc = "run"
    /\ Len(added) < MaxAdds
    /\ \E value \in IntValues, ok \in BOOLEAN :
        LET r == push(IntMem, lhead, value, ok)
        IN  /\ SetIntMem(r.L)
            /\ lpc' = IF r.crash THEN "crashed" ELSE "run"
            /\ added' = IF r.ret THEN Append(added, value) ELSE added
            /\ held' = IF r.ret THEN Append(held, value) ELSE held
            /\ llast' = [op |-> "push", arg |-> value,
                         ret |-> IF r.ret THEN 1 ELSE 0, front |-> 0]
    /\ UNCHANGED <<lhead, taken, notInt>>

\* One pass of the loop of lines 162-174.
Pop ==
    /\ lpc = "run"
    /\ LET r == pop(IntMem, lhead)
       IN  /\ SetIntMem(r.L)
           /\ lpc' = IF r.crash THEN "crashed" ELSE "run"
           /\ taken' = IF r.ret # INT_MAX THEN Append(taken, r.ret) ELSE taken
           /\ held' = IF held # <<>>
                      THEN SubSeq(held, 1, Len(held) - 1) ELSE held
           /\ llast' = [op |-> "pop", arg |-> Len(held), ret |-> r.ret,
                        front |-> IF held # <<>>
                                  THEN held[Len(held)] ELSE INT_MAX]
    /\ UNCHANGED <<lhead, added, notInt>>

\* Line 176.
StackDestroy ==
    /\ lpc = "run"
    /\ SetIntMem(delete_stack(IntMem, lhead, IntFuel))
    /\ lpc' = "done"
    /\ llast' = [op |-> "destroy", arg |-> 0, ret |-> 0, front |-> 0]
    /\ UNCHANGED <<lhead, added, taken, held, notInt>>

StackNext == StackCreate \/ Push \/ Pop \/ StackDestroy

SpecStack == StackInit /\ [][StackNext]_vars

\* The values in the stack, top first.
StackValues == IntWalk(IntMem, lnode[lhead].next, IntFuel)

\* ------------------------------------------------- queue.c or stack.c
\* A run of either program: main of queue.c or main of stack.c.
EitherInit ==
    /\ TableInit
    /\ HashIdle
    /\ TrieIdle
    /\ prog \in {"queue", "stack"}
    /\ lpc = "create"
    /\ lhead = NULL
    /\ lnode = [a \in IntAddr |-> JunkInt]
    /\ lstat = [a \in IntAddr |-> "free"]
    /\ lfault = "none"
    /\ added = <<>>
    /\ taken = <<>>
    /\ held = <<>>
    /\ llast = [op |-> "none", arg |-> 0, ret |-> 0, front |-> 0]

EitherNext ==
    \/ prog = "queue" /\ QueueNext
    \/ prog = "stack" /\ StackNext

SpecEither == EitherInit /\ [][EitherNext]_vars

\* ------------------------------------------------------------ trie.c
\* The trie's heap as one value.
TrieMem == [node |-> tnode, stat |-> tstat]

SetTrieMem(T) ==
    /\ tnode' = T.node
    /\ tstat' = T.stat

\* malloc(sizeof(struct trie)): the lowest free address, or NULL when the
\* allocator fails (ok = FALSE) or the arena is used up.
TrieMalloc(T, ok) ==
    LET free == {a \in TrieAddr : T.stat[a] = "free"}
    IN  IF ok /\ free # {} THEN Min(free) ELSE NULL

\* create_trie(), lines 26-41.
create_trie(T, ok) ==
    LET new_trie == TrieMalloc(T, ok)
    IN  IF new_trie = NULL
        THEN [T |-> T, ret |-> NULL]
        ELSE [T |-> [T EXCEPT !.stat[new_trie] = "live",
                              !.node[new_trie] = JunkTrie],
              ret |-> new_trie]

\* isalpha and isupper of <ctype.h> in the "C" locale, which main never
\* changes, on an argument in 0..255 or EOF.
isupper(c) == c \in 65..90
isalpha(c) == c \in 65..90 \/ c \in 97..122

\* Mutant: an upper-case letter is not taken for a letter.
get_alphabetical_index_LowerOnly(c, ctype) ==
    IF c \in 97..122 THEN c % 97 ELSE -1

\* get_alphabetical_index(c), lines 46-57. c is a char: negative for a byte
\* above 127 where char is signed. Passing a negative value other than EOF
\* to isalpha is undefined: the C library either answers 0 or stops the
\* process, as the build has it.
get_alphabetical_index(c, ctype) ==
    IF c < -1
    THEN IF ctype = "trap" THEN Trap ELSE -1
    ELSE IF isalpha(c)
    THEN LET lower == IF isupper(c) THEN c + 32 ELSE c
         IN  lower % 97
    ELSE -1

\* insert_entry(trie_root, value), lines 63-90. budget is the number of
\* create_trie calls the allocator still serves. ret is 1 for true, 0 for
\* false, Trap when the call did not return.
RECURSIVE trie_insert_entry(_, _, _, _)
trie_insert_entry(T, trie_root, value, budget) ==
    IF trie_root = NULL THEN [T |-> T, ret |-> Trap]
    ELSE IF value = <<>>
    THEN [T |-> [T EXCEPT !.node[trie_root].is_data = TRUE], ret |-> 1]
    ELSE LET index == get_alphabetical_index(
                          CharToInt(Head(value), hsigned), tctype)
         IN  IF index = Trap THEN [T |-> T, ret |-> Trap]
             ELSE IF index < 0 THEN [T |-> T, ret |-> 0]
             ELSE IF T.node[trie_root].paths[index] = NULL
             THEN LET r == create_trie(T, budget > 0)
                  IN  IF r.ret = NULL
                      THEN [T |-> T, ret |-> 0]
                      ELSE trie_insert_entry(
                               [r.T EXCEPT
                                   !.node[trie_root].paths[index] = r.ret],
                               r.ret, Tail(value), budget - 1)
             ELSE trie_insert_entry(T, T.node[trie_root].paths[index],
                                    Tail(value), budget)

\* find_entry(trie_root, value), lines 97-123: the node that marks value, or
\* NULL, or Trap when the call did not return.
RECURSIVE trie_find_entry(_, _, _)
trie_find_entry(T, trie_root, value) ==
    IF trie_root = NULL THEN Trap
    ELSE IF value = <<>>
    THEN IF T.node[trie_root].is_data THEN trie_root ELSE NULL
    ELSE LET index == get_alphabetical_index(
                          CharToInt(Head(value), hsigned), tctype)
         IN  IF index = Trap THEN Trap
             ELSE IF index < 0 THEN NULL
             ELSE IF T.node[trie_root].paths[index] = NULL THEN NULL
             ELSE trie_find_entry(T, T.node[trie_root].paths[index],
                                  Tail(value))

\* Mutant: line 138 clears is_data in every trie, not in the one found.
trie_remove_entry_ClearsAll(T, trie_root, value) ==
    LET found == trie_find_entry(T, trie_root, value)
    IN  IF found = Trap THEN [T |-> T, ret |-> Trap]
        ELSE IF found # NULL
        THEN [T |-> [T EXCEPT !.node = [a \in TrieAddr |->
                                 [T.node[a] EXCEPT !.is_data = FALSE]]],
              ret |-> 1]
        ELSE [T |-> T, ret |-> 0]

\* remove_entry(trie_root, value), lines 134-143.
trie_remove_entry(T, trie_root, value) ==
    LET found == trie_find_entry(T, trie_root, value)
    IN  IF found = Trap THEN [T |-> T, ret |-> Trap]
        ELSE IF found # NULL
        THEN [T |-> [T EXCEPT !.node[found].is_data = FALSE], ret |-> 1]
        ELSE [T |-> T, ret |-> 0]

\* The tries delete_trie visits from trie_root, lines 148-154.
RECURSIVE TrieReach(_, _, _)
TrieReach(T, trie_root, fuel) ==
    IF trie_root = NULL \/ fuel = 0 THEN {}
    ELSE {trie_root} \cup
         UNION {TrieReach(T, T.node[trie_root].paths[n], fuel - 1) :
                    n \in 0..(TRIE_PATHS - 1)}

\* delete_trie(trie_root), lines 146-159: every path's trie, then the node;
\* each trie has one parent, so each is freed once.
delete_trie(T, trie_root, fuel) ==
    LET gone == TrieReach(T, trie_root, fuel)
    IN  [node |-> [a \in TrieAddr |->
                      IF a \in gone THEN JunkTrie ELSE T.node[a]],
         stat |-> [a \in TrieAddr |->
                      IF a \in gone THEN "free" ELSE T.stat[a]]]

\* main of trie.c. Line 163: the result of create_trie is not tested.
TrieInit ==
    /\ TableInit
    /\ hkey = <<>>
    /\ hsigned \in BOOLEAN
    /\ hcalled = FALSE
    /\ hret = 0
    /\ IntIdle
    /\ tpc = "create"
    /\ troot = NULL
    /\ tnode = [a \in TrieAddr |-> JunkTrie]
    /\ tstat = [a \in TrieAddr |-> "free"]
    /\ tctype \in {"zero", "trap"}
    /\ words = {}
    /\ tlast = [op |-> "none", word |-> <<>>, ret |-> 0]

TrieCreate ==
    /\ tpc = "create"
    /\ \E ok \in BOOLEAN :
        LET r == create_trie(TrieMem, ok)
        IN  /\ SetTrieMem(r.T)
            /\ troot' = r.ret
    /\ tpc' = "run"
    /\ tlast' = [op |-> "create", word |-> <<>>, ret |-> 0]
    /\ UNCHANGED <<tctype, words, hsigned, notTrie>>

\* The case-folded form of a word of letters, and the test for one.
Fold(w) == [n \in DOMAIN w |-> IF w[n] \in 65..90 THEN w[n] + 32 ELSE w[n]]
OnlyLetters(w) == \A n \in DOMAIN w : w[n] \in 65..90 \/ w[n] \in 97..122

\* One pass of the loop of lines 167-172.
TrieInsert ==
    /\ tpc = "run"
    /\ \E w \in TrieWords, budget \in 0..MaxWordLen :
        LET r == trie_insert_entry(TrieMem, troot, w, budget)
        IN  /\ SetTrieMem(r.T)
            /\ tpc' = IF r.ret = Trap THEN "crashed" ELSE "run"
            /\ words' = IF r.ret = 1 THEN words \cup {Fold(w)} ELSE words
            /\ tlast' = [op |-> "insert", word |-> w, ret |-> r.ret]
    /\ UNCHANGED <<troot, tctype, hsigned, notTrie>>

\* One pass of the loops of lines 175-180 and 191-196.
TrieFind ==
    /\ tpc = "run"
    /\ \E w \in TrieWords :
        LET r == trie_find_entry(TrieMem, troot, w)
        IN  /\ tpc' = IF r = Trap THEN "crashed" ELSE "run"
            /\ tlast' = [op |-> "find", word |-> w, ret |-> r]
    /\ UNCHANGED <<troot, tnode, tstat, tctype, words, hsigned, notTrie>>

\* One pass of the loop of lines 183-188.
TrieRemove ==
    /\ tpc = "run"
    /\ \E w \in TrieWords :
        LET r == trie_remove_entry(TrieMem, troot, w)
        IN  /\ SetTrieMem(r.T)
            /\ tpc' = IF r.ret = Trap THEN "crashed" ELSE "run"
            /\ words' = IF OnlyLetters(w) THEN words \ {Fold(w)} ELSE words
            /\ tlast' = [op |-> "remove", word |-> w, ret |-> r.ret]
    /\ UNCHANGED <<troot, tctype, hsigned, notTrie>>

\* Line 200.
TrieDestroy ==
    /\ tpc = "run"
    /\ SetTrieMem(delete_trie(TrieMem, troot, MaxTries + 1))
    /\ tpc' = "done"
    /\ tlast' = [op |-> "destroy", word |-> <<>>, ret |-> 0]
    /\ UNCHANGED <<troot, tctype, words, hsigned, notTrie>>

TrieNext == TrieCreate \/ TrieInsert \/ TrieFind \/ TrieRemove \/ TrieDestroy

SpecTrie == TrieInit /\ [][TrieNext]_vars

\* ------------------------------------------------------------ hash alone

\* The longest key tried.  The accumulator first passes 2^64 at 11 bytes.
MaxKeyLen == 11

\* The bytes keys are made of: the last one every build reads as itself and
\* the first one a signed char makes negative.
HashBytes == {127, 128}

HashKeys == UNION {[1..n -> HashBytes] : n \in 0..MaxKeyLen}

HashInputs ==
    /\ TableInit
    /\ hkey \in HashKeys
    /\ hsigned \in BOOLEAN
    /\ hcalled = FALSE
    /\ hret = 0
    /\ IntIdle
    /\ TrieIdle

\* A call hash(hkey), lines 188-197.
HashCall ==
    /\ ~hcalled
    /\ hret' = hash_bytes(hkey, hsigned)
    /\ hcalled' = TRUE
    /\ UNCHANGED <<hkey, hsigned, notHash>>

HashNext == HashCall

SpecHash == HashInputs /\ [][HashNext]_vars

\* ------------------------------------------------------------ observations

\* The node addresses met by following next from p.
RECURSIVE Chain(_, _, _)
Chain(H, p, fuel) ==
    IF p = NULL \/ p \notin NodeAddr \/ fuel = 0 THEN <<>>
    ELSE <<p>> \o Chain(H, H.node[p].next, fuel - 1)

\* Bucket b's list: its node addresses, the non-sentinel ones, their values.
ChainOf(b) == Chain(Mem, table[b], Fuel)
EntriesOf(b) == Tail(ChainOf(b))
ValuesOf(b) == [n \in 1..Len(EntriesOf(b)) |-> StrVal(Mem, node[EntriesOf(b)[n]].value)]
Range(q) == {q[n] : n \in DOMAIN q}

\* The buckets whose table entry holds a list.
Built == {b \in DOMAIN table : table[b] # NULL}

\* s without its first element equal to x.
RECURSIVE RemoveFirst(_, _)
RemoveFirst(s, x) ==
    IF s = <<>> THEN <<>>
    ELSE IF Head(s) = x THEN Tail(s)
    ELSE <<Head(s)>> \o RemoveFirst(Tail(s), x)

\* What find_entry gives for name k, called as main calls it.
Found(k) == find_entry(Mem, table[hash(k)], k)

\* What find_entry gives for name k in bucket b's list.
FoundIn(b, k) == find_entry(Mem, table[b], k)

UserNames == Names \ {SENTINEL}

\* ------------------------------------------------------------ properties

\* C1: right after insert_entry(table[hash(k)], k) has returned true,
\* find_entry(table[hash(k)], k) returns a live node whose value is k.
C1_FindAfterInsert ==
    (pc = "run" /\ last.op = "insert" /\ last.ret = "true") =>
        LET p == Found(last.key)
        IN  /\ p \in NodeAddr
            /\ nstat[p] = "live"
            /\ StrVal(Mem, node[p].value) = last.key

\* dup has just been inserted into the bucket that already holds bob.
C1_Witness ==
    /\ pc = "run"
    /\ last.op = "insert" /\ last.ret = "true" /\ last.key = dup
    /\ stored[bob] = 1
    /\ everRemoved

\* C2: a name inserted more often than removed is found, with its own value;
\* a name removed as often as inserted is not found.
C2_FoundIffStored ==
    pc = "run" =>
        \A k \in UserNames :
            LET p == Found(k)
            IN  /\ stored[k] > 0 =>
                    (p \in NodeAddr /\ StrVal(Mem, node[p].value) = k)
                /\ stored[k] = 0 => p = NULL

\* dup was inserted twice and has just been removed once.
C2_Witness ==
    /\ pc = "run"
    /\ last.op = "remove" /\ last.ret = "true" /\ last.key = dup
    /\ stored[dup] = 1

LiveNodes == {a \in NodeAddr : nstat[a] = "live"}
LiveStrs == {a \in StrAddr : sstat[a] = "live"}
Linked == UNION {Range(ChainOf(b)) : b \in Built}
LinkedEntries == UNION {Range(EntriesOf(b)) : b \in Built}

\* C3: no invalid access and no invalid free ever happens; while the table
\* is in use the live node blocks are exactly the linked nodes and the live
\* string blocks are exactly the strings the linked entries own, one each;
\* after teardown no block is live.
C3_ReleasedExactlyOnce ==
    /\ pc # "crashed" => fault = "none"
    /\ pc = "run" =>
        /\ LiveNodes = Linked
        /\ LiveStrs = {node[p].value : p \in LinkedEntries}
        /\ Cardinality(LiveStrs) = Cardinality(LinkedEntries)
    /\ pc = "done" => (LiveNodes = {} /\ LiveStrs = {})

\* Teardown has run on a table from which a node had been removed and in
\* which two nodes of one bucket were still linked.
C3_Witness ==
    /\ pc = "done"
    /\ last.op = "destroy"
    /\ everRemoved
    /\ stored[bob] = 1 /\ stored[dup] = 1

\* C4: an insert of "SENTINEL" returns false, changes no bucket and
\* allocates nothing.
C4_SentinelInsertRejected ==
    [][(last'.op = "insert" /\ last'.key = SENTINEL) =>
        (last'.ret = "false" /\ UNCHANGED <<heapvars, fault>>)]_vars

\* "SENTINEL" has just been refused by a table that holds bob.
C4_Witness ==
    /\ last.op = "insert" /\ last.key = SENTINEL /\ last.ret = "false"
    /\ stored[bob] = 1

\* C5: a removal request for a name that is not stored ends as not found
\* (remove_entry is not called) and changes no bucket.
C5_RemoveAbsentNotFound ==
    [][(last'.op = "remove" /\ stored[last'.key] = 0) =>
        (last'.ret = "notfound" /\ UNCHANGED <<heapvars, fault>>)]_vars

\* bob was not found in its bucket, which holds dup; bob had been stored and
\* removed before.
C5_Witness ==
    /\ last.op = "remove" /\ last.key = bob /\ last.ret = "notfound"
    /\ stored[dup] = 1
    /\ everRemoved

\* C6: removing a stored name k changes only bucket hash(k): every other
\* bucket keeps its nodes and values, k's bucket keeps its other values in
\* order and loses the first k, print_list shows the same, and every other
\* name that was found is still found.
C6_RemoveFrame ==
    [][\A k \in Names, h \in Built :
        (last'.op = "remove" /\ last'.ret = "true" /\ last'.key = k
            /\ h = hash(k)) =>
            /\ \A b \in Built \ {h} :
                /\ ChainOf(b)' = ChainOf(b)
                /\ ValuesOf(b)' = ValuesOf(b)
            /\ ValuesOf(h)' = RemoveFirst(ValuesOf(h), k)
            /\ ChainOf(h)' = RemoveFirst(ChainOf(h), Found(k))
            /\ print_list(Mem, table[h])' =
                   RemoveFirst(print_list(Mem, table[h]), k)
            /\ \A k2 \in UserNames \ {k}, h2 \in Built :
                   (h2 = hash(k2) /\ FoundIn(h2, k2) # NULL) =>
                       FoundIn(h2, k2)' = FoundIn(h2, k2)
            /\ stored'[k] = 0 => FoundIn(h, k)' = NULL
    ]_vars

\* alice, bob and carol were inserted and bob has just been removed.
C6_Witness ==
    /\ last.op = "remove" /\ last.key = bob /\ last.ret = "true"
    /\ stored[bob] = 0
    /\ stored[alice] = 1 /\ stored[carol] = 1

\* C7: every stored value sits in the list of bucket hash(value), which is
\* an index in 0..TABLE_SIZE-1.
C7_KeysInOwnBucket ==
    \A b \in Built :
        \A n \in DOMAIN ValuesOf(b) :
            /\ hash(ValuesOf(b)[n]) = b
            /\ b \in 0..(TABLE_SIZE - 1)

\* Two buckets are in use, one of them with two different names.
C7_Witness ==
    /\ pc = "run"
    /\ stored[alice] = 1 /\ stored[bob] = 1 /\ stored[dup] = 1

\* C8: from construction to teardown, the node held in table[b] is live,
\* carries the SENTINEL marker and has no predecessor; no other node of its
\* list carries the marker or its bytes; no two buckets share a sentinel.
C8_OneSentinelFirst ==
    pc \in {"create", "run"} =>
        /\ \A b \in Built :
            /\ table[b] \in NodeAddr
            /\ nstat[table[b]] = "live"
            /\ node[table[b]].value = SentinelPtr
            /\ node[table[b]].prev = NULL
            /\ ChainOf(b) # <<>> /\ Head(ChainOf(b)) = table[b]
            /\ \A n \in DOMAIN EntriesOf(b) :
                /\ node[EntriesOf(b)[n]].value # SentinelPtr
                /\ ValuesOf(b)[n] # SENTINEL
        /\ \A b, c \in Built : table[b] = table[c] => b = c
        /\ pc = "run" => Built = 0..(TABLE_SIZE - 1)

\* The table has seen an insert into and a remove from a bucket, and a
\* refused request on "SENTINEL".
C8_Witness ==
    /\ pc = "run"
    /\ everRemoved
    /\ stored[bob] = 1
    /\ last.key = SENTINEL /\ last.op = "remove"

\* C9: an insert in which an allocation fails returns false, leaves the
\* process running and the lists and the arena as they were.
C9_AllocFailureRecovered ==
    [][(last'.op = "insert" /\ last'.allocfail) =>
        (last'.ret = "false" /\ pc' = "run" /\ UNCHANGED <<heapvars, fault>>)]_vars

\* C10: when construction reports failure, no block is live.
C10_FailedConstructionLeaksNothing ==
    pc = "failed" => (LiveNodes = {} /\ LiveStrs = {})

\* C11: hash(key) is the fold of acc := (acc * 33 + c) mod 2^64 from 5381
\* over the bytes c of the key, each taken as its value in 0..255, reduced
\* mod TABLE_SIZE; it lies in 0..TABLE_SIZE-1.
C11_HashIsUnsignedByteFold ==
    hcalled =>
        /\ hret = hash(hkey)
        /\ hret \in 0..(TABLE_SIZE - 1)

\* ------------------------------------------------------------ list properties

Reverse(q) == [n \in 1..Len(q) |-> q[Len(q) + 1 - n]]

\* The insertion history of bucket b: values and node addresses, oldest first.
InsertedVals(b) == [n \in DOMAIN inserted[b] |-> inserted[b][n].val]
InsertedAddrs(b) == [n \in DOMAIN inserted[b] |-> inserted[b][n].addr]

\* The most recently inserted surviving node of bucket b with value k.
RECURSIVE LatestOf(_, _)
LatestOf(q, k) ==
    IF q = <<>> THEN NULL
    ELSE IF q[Len(q)].val = k THEN q[Len(q)].addr
    ELSE LatestOf(SubSeq(q, 1, Len(q) - 1), k)

\* C12: every non-sentinel node reachable from a list head has a non-null
\* prev.
C12_EntryHasPrev ==
    \A b \in Built :
        \A n \in DOMAIN EntriesOf(b) : node[EntriesOf(b)[n]].prev # NULL

\* A bucket holds two nodes after a node has been removed from the table.
C12_Witness ==
    /\ pc = "run"
    /\ Len(EntriesOf(0)) = 2
    /\ last.op = "remove" /\ last.ret = "true"

\* C13: every bucket list is finite and acyclic: the walk along next from the
\* sentinel meets no node twice and ends at NULL, and find_entry ends for
\* every name.
C13_ListAcyclic ==
    \A b \in Built :
        /\ Len(ChainOf(b)) < Fuel
        /\ Cardinality(Range(ChainOf(b))) = Len(ChainOf(b))
        /\ \A k \in Names : FoundIn(b, k) # Diverges
        /\ Len(print_list(Mem, table[b])) < Fuel

\* One bucket holds three nodes, two of them with the same value.
C13_Witness ==
    /\ pc = "run"
    /\ stored[bob] = 2 /\ stored[dup] = 1

\* C14: print_list writes the values of the non-sentinel nodes in list order,
\* which is the reverse of the order in which the surviving nodes were
\* inserted; it writes "Empty list." exactly when no inserted node survives;
\* it never writes the marker.
C14_PrintIsReverseInsertion ==
    pc = "run" =>
        \A b \in Built :
            /\ print_list(Mem, table[b]) = ValuesOf(b)
            /\ print_list(Mem, table[b]) = Reverse(InsertedVals(b))
            /\ PrintsEmpty(Mem, table[b]) <=> inserted[b] = <<>>
            /\ \A n \in DOMAIN print_list(Mem, table[b]) :
                   print_list(Mem, table[b])[n] # SENTINEL

\* dup, then bob were inserted into one bucket, something was removed, and
\* another bucket is empty.
C14_Witness ==
    /\ pc = "run"
    /\ InsertedVals(0) = <<dup, bob>>
    /\ inserted[4] = <<>>
    /\ everRemoved

\* C19: find_entry returns the most recently inserted surviving node with the
\* value asked for (NULL when there is none), so a find-then-remove releases
\* that node and leaves the older nodes, duplicates included, in their order.
C19_FindsMostRecent ==
    [][\A k \in UserNames, h \in Built :
        h = hash(k) =>
            /\ pc' = "run" => FoundIn(h, k)' = LatestOf(inserted[h], k)'
            /\ (last'.op = "remove" /\ last'.ret = "true" /\ last'.key = k) =>
                /\ nstat'[LatestOf(inserted[h], k)] = "free"
                /\ inserted'[h] =
                       SelectSeq(inserted[h],
                           LAMBDA e : e.addr # LatestOf(inserted[h], k))
                /\ EntriesOf(h)' = Reverse(InsertedAddrs(h))'
    ]_vars

\* dup, bob and dup again were inserted; the removal of dup has left the
\* first dup and bob.
C19_Witness ==
    /\ last.op = "remove" /\ last.ret = "true" /\ last.key = dup
    /\ InsertedVals(0) = <<dup, bob>>
    /\ InsertedAddrs(0) = <<TABLE_SIZE + 1, TABLE_SIZE + 2>>

\* C20: for every node n of a bucket list, n.next.prev = n when n.next is
\* not NULL, and n.prev.next = n when n is not the sentinel.
C20_LinksConsistent ==
    \A b \in Built :
        \A n \in DOMAIN ChainOf(b) :
            LET p == ChainOf(b)[n]
            IN  /\ node[p].next # NULL => node[node[p].next].prev = p
                /\ n > 1 => /\ node[p].prev \in NodeAddr
                            /\ node[node[p].prev].next = p

\* A bucket holds dup twice and bob, after a removal.
C20_Witness ==
    /\ pc = "run"
    /\ last.op = "insert" /\ last.ret = "true"
    /\ stored[dup] = 2 /\ stored[bob] = 1
    /\ everRemoved

\* C15: remove_entry called on a node whose value is the marker returns false
\* and changes no node, value or link and frees nothing.
C15_RemoveSentinelRejected ==
    [][last'.op = "remove_head" =>
        /\ last'.ret = "false"
        /\ UNCHANGED <<heapvars, fault>>
    ]_vars

\* remove_entry was called on the sentinel of a table that holds two names in
\* one bucket.
C15_Witness ==
    /\ last.op = "remove_head"
    /\ stored[bob] = 1 /\ stored[dup] = 1

\* ------------------------------------------------------------ queue properties

\* C16: the queue is first in, first out: the values dequeue has returned are
\* the first of the values enqueued, in their order; the queue holds the
\* remaining ones in their order; each dequeue on a non-empty queue returns
\* the value that was at the front. This covers a queue drained and refilled.
C16_QueueIsFifo ==
    (lpc = "run" /\ lhead # NULL) =>
        /\ lfault = "none"
        /\ Len(taken) <= Len(added)
        /\ taken = SubSeq(added, 1, Len(taken))
        /\ QueueValues = SubSeq(added, Len(taken) + 1, Len(added))
        /\ (llast.op = "dequeue" /\ llast.arg > 0) => llast.ret = llast.front

\* 1 was enqueued and dequeued, which emptied the queue; then 2 and 1 were
\* enqueued and 2 dequeued.
C16_Witness ==
    /\ lpc = "run"
    /\ added = <<1, 2, 1>>
    /\ taken = <<1, 2>>
    /\ llast.op = "dequeue" /\ llast.ret = 2
    /\ lnode[lhead].next = 3

\* ------------------------------------------------------------ stack properties

\* C17: the stack is last in, first out: each pop on a non-empty stack
\* returns the most recently pushed value not yet popped, and the stack then
\* holds the values pushed before it, the latest of them on top.
C17_StackIsLifo ==
    (lpc = "run" /\ lhead # NULL) =>
        /\ StackValues = Reverse(held)
        /\ (llast.op = "pop" /\ llast.arg > 0) =>
               /\ llast.ret = llast.front
               /\ taken[Len(taken)] = llast.front

\* 1 and 2 were pushed, 2 was popped, 2 and 1 were pushed, and two pops have
\* returned 1 and then 2.
C17_Witness ==
    /\ lpc = "run"
    /\ added = <<1, 2, 2, 1>>
    /\ taken = <<2, 1, 2>>
    /\ held = <<1>>
    /\ llast.op = "pop" /\ llast.ret = 2

\* ------------------------------------------------------------ trie properties

\* C18: the trie is a set of case-folded words of letters: find_entry(root, w)
\* returns a node exactly when w has only letters and a word equal to w but
\* for letter case was inserted with success and not removed since; every
\* letter has an index in 0..25, the same for its upper and lower case.
C18_TrieIsFoldedSet ==
    /\ (tpc = "run" /\ troot # NULL) =>
           \A w \in TrieWords :
               trie_find_entry(TrieMem, troot, w) \in TrieAddr
                   <=> (OnlyLetters(w) /\ Fold(w) \in words)
    /\ tpc # "off" =>
           \A n \in 0..25 :
               /\ get_alphabetical_index(65 + n, tctype) = n
               /\ get_alphabetical_index(97 + n, tctype) = n
               /\ n \in 0..(TRIE_PATHS - 1)

\* "a" and "aB" were inserted, then "A" was removed: "ab" alone is left.
C18_Witness ==
    /\ tpc = "run"
    /\ tlast = [op |-> "remove", word |-> <<65>>, ret |-> 1]
    /\ words = {<<97, 98>>}
    /\ Cardinality({a \in TrieAddr : tstat[a] = "live"}) = 3

\* ------------------------------------------------------------ release

\* C21: when a run of the stack has ended with delete_stack, every node a
\* push allocated has been released, the popped ones included, and none was
\* released twice.
C21_StackReleasesEveryNode ==
    lpc = "done" =>
        /\ \A a \in IntAddr : lstat[a] = "free"
        /\ lfault = "none"

\* C22: dequeue and pop return SENTINEL exactly when the container holds no
\* node but the sentinel at the call, and then leave the container as it
\* was; a call on a non-empty container never returns SENTINEL.
C22_SentinelIffEmpty ==
    [][(llast'.op \in {"dequeue", "pop"} /\ lhead # NULL) =>
        /\ llast'.ret = INT_MAX <=> lnode[lhead].next = NULL
        /\ llast'.ret = INT_MAX <=> held = <<>>
        /\ llast'.ret = INT_MAX <=>
               IntWalk(IntMem, lnode[lhead].next, IntFuel) = <<>>
        /\ llast'.ret = INT_MAX => UNCHANGED <<lhead, lnode, lstat, lfault>>
    ]_vars

\* The queue took 1 and 2, gave them back, and was asked once more.
C22_Witness ==
    /\ prog = "queue"
    /\ added = <<1, 2>>
    /\ taken = <<1, 2>>
    /\ llast.op = "dequeue" /\ llast.ret = INT_MAX

\* C23: in a run of the queue no operation reads, writes or frees a node that
\* is not allocated, so no node is freed twice; after delete_queue every node
\* enqueue allocated, and the sentinel, has been freed.
C23_QueueMemorySafe ==
    prog = "queue" =>
        /\ lfault = "none"
        /\ lpc = "done" => \A a \in IntAddr : lstat[a] = "free"
        /\ lpc = "run" /\ lhead # NULL =>
               /\ lstat[lhead] = "live"
               /\ Cardinality({a \in IntAddr : lstat[a] = "live"})
                      = Len(held) + 1

\* 1, 2 and 1 were enqueued with two dequeues among them, and delete_queue
\* has run with one node left in the queue.
C23_Witness ==
    /\ prog = "queue"
    /\ lpc = "done"
    /\ added = <<1, 2, 1>>
    /\ taken = <<1, 2>>

\* The live nodes of the queue in order, the sentinel first.
RECURSIVE IntChain(_, _, _)
IntChain(L, p, fuel) ==
    IF p = NULL \/ p \notin IntAddr \/ fuel = 0 THEN <<>>
    ELSE <<p>> \o IntChain(L, L.node[p].next, fuel - 1)

QueueChain == IntChain(IntMem, lhead, IntFuel)

\* C24: in the queue every pointer kept in a live node is NULL or refers to a
\* live node: each node's prev is the node before it, the sentinel for the
\* front; queue_head->prev is the last node of a non-empty queue and refers
\* to no freed node when the queue is empty.
C24_QueueLinksLive ==
    (prog = "queue" /\ lpc = "run" /\ lhead # NULL) =>
        /\ \A n \in 2..Len(QueueChain) :
               lnode[QueueChain[n]].prev = QueueChain[n - 1]
        /\ Len(QueueChain) > 1 =>
               lnode[lhead].prev = QueueChain[Len(QueueChain)]
        /\ Len(QueueChain) = 1 =>
               \/ lnode[lhead].prev = NULL
               \/ lstat[lnode[lhead].prev] = "live"
        /\ \A a \in IntAddr :
               lstat[a] = "live" =>
                   /\ lnode[a].prev # NULL => lstat[lnode[a].prev] = "live"
                   /\ lnode[a].next # NULL => lstat[lnode[a].next] = "live"

\* ------------------------------------------------------------ trie frame

\* What find_entry(trie_root, w) returns for every word.
FindAll == [w \in TrieWords |-> trie_find_entry(TrieMem, troot, w)]

\* C25, as stated: remove_entry(root, w) returns true exactly when
\* find_entry(root, w) returned a node before; afterwards find_entry(root, w)
\* is NULL and the result for every other word is as before; no trie is
\* deallocated or unlinked; a second remove of w returns false.
C25_RemoveFrameEveryOtherWord ==
    [][(tlast'.op = "remove" /\ tpc' = "run") =>
        \A w \in TrieWords :
            tlast'.word = w =>
                /\ tlast'.ret = 1 <=> FindAll[w] \in TrieAddr
                /\ FindAll'[w] = NULL
                /\ \A w2 \in TrieWords \ {w} : FindAll'[w2] = FindAll[w2]
                /\ tstat' = tstat
                /\ \A a \in TrieAddr : tnode'[a].paths = tnode[a].paths
                /\ (tlast.op = "remove" /\ tlast.word = w) => tlast'.ret = 0
    ]_vars

\* C25, amended: the same, with the result unchanged for every word that
\* differs from w by more than letter case.
C25_RemoveFrameOtherFoldedWords ==
    [][(tlast'.op = "remove" /\ tpc' = "run") =>
        \A w \in TrieWords :
            tlast'.word = w =>
                /\ tlast'.ret = 1 <=> FindAll[w] \in TrieAddr
                /\ FindAll'[w] = NULL
                /\ \A w2 \in TrieWords :
                       Fold(w2) # Fold(w) => FindAll'[w2] = FindAll[w2]
                /\ tstat' = tstat
                /\ \A a \in TrieAddr : tnode'[a].paths = tnode[a].paths
                /\ (tlast.op = "remove" /\ tlast.word = w) => tlast'.ret = 0
    ]_vars

\* "ab" was removed from a trie that also holds its prefix "a".
C25_Witness ==
    /\ tpc = "run"
    /\ tlast = [op |-> "remove", word |-> <<97, 98>>, ret |-> 1]
    /\ words = {<<97>>}

\* C26: insert_entry with a word that holds a character that is not a letter
\* returns false, and find_entry answers for every word as it did before.
C26_NonLetterInsertRejected ==
    [][\A w \in TrieWords :
        (tlast'.op = "insert" /\ tlast'.word = w /\ ~OnlyLetters(w)
            /\ troot # NULL) =>
            /\ tlast'.ret = 0
            /\ \A w2 \in TrieWords :
                   FindAll'[w2] \in TrieAddr <=> FindAll[w2] \in TrieAddr
    ]_vars

=============================================================================
